---------------------------- MODULE Spec2Model ----------------------------
(***************************************************************************)
(* A model of the PyBGP peer session: the event queue and the FSM driver   *)
(* of bgp_fsm.py, the Established handler of bgp_fsm_established.py and    *)
(* the message codec of bgp_message.py.                                    *)
(*                                                                         *)
(* The handlers of the other five states, the timer drivers and the        *)
(* transport adapter live in modules the class imports (bgp_fsm_idle,      *)
(* bgp_timers, network_io, ...) whose code is not part of the source tree; *)
(* they are modelled from the specification's transition table (4.2 - 4.4) *)
(* and are marked as such where they are defined.                          *)
(*                                                                         *)
(* Scheduling is asyncio's: one task runs at a time and control changes    *)
(* hands only where a task awaits something that suspends.  The FSM driver *)
(* is suspended at pc = "sleep" (asyncio.sleep(0.1)) and at pc = "send"    *)
(* (inside a send_*_message call); at every other pc it is running and no  *)
(* other task takes a step.                                                *)
(***************************************************************************)
EXTENDS Integers, Sequences, FiniteSets, TLC

VARIABLES
    self,       \* the BgpFsm object: its fields, plus the log of what it wrote
    pc,         \* where the task running BgpFsm.fsm stands
    stage,      \* which `if self.state == ...` of the dispatch chain comes next
    event,      \* fsm's local variable `event`
    entry,      \* the session as it was when `event` was dequeued
    enq_log,    \* QueueSpec: every event passed to enqueue_event, as tagged
    deq_log,    \* QueueSpec: every event dequeue_event returned
    msg,        \* CodecSpec: the message value handed to write()
    data,       \* CodecSpec: the bytes on the wire
    decoded     \* CodecSpec: what DecodeMessage made of them

vars == <<self, pc, stage, event, entry, enq_log, deq_log, msg, data, decoded>>
sessionVars == <<self, pc, stage, event, entry>>
queueVars == <<enq_log, deq_log>>
codecVars == <<msg, data, decoded>>

None == "None"

-----------------------------------------------------------------------------
(* Bounds of the model.                                                     *)

\* Events one run of the session enqueues at most.
MaxEvents == 6
\* Events pending in the queue at most when a non-stop event is enqueued.
MaxQueue == 2
\* Enqueues of one run of the queue on its own (QueueSpec).
MaxQueueOps == 4
\* The configured local hold time and the hold time the peer's OPEN carries.
LocalHoldTime == 3
PeerHoldTime == 3
\* The hold timer's initial value on entering OpenSent (240 s in the
\* specification), in ticks of the model.
LargeHoldTime == 2
\* A serial number the counter has reached after that many enqueues.
SerialNearWrap == 65533

-----------------------------------------------------------------------------
(* bgp_message.py: message types and error codes.                           *)

OPEN == 1
UPDATE == 2
NOTIFICATION == 3
KEEPALIVE == 4
HEADER_SIZE == 19

MESSAGE_HEADER_ERROR == 1
OPEN_MESSAGE_ERROR == 2
UPDATE_MESSAGE_ERROR == 3
HOLD_TIMER_EXPIRED == 4
FINITE_STATE_MACHINE_ERROR == 5
CEASE == 6

CONNECTION_NOT_SYNCHRONISED == 1
BAD_MESSAGE_LENGTH == 2
BAD_MESSAGE_TYPE == 3

UNSUPPORTED_VERSION_NUMBER == 1
BAD_PEER_AS == 2
BAD_BGP_IDENTIFIER == 3
UNACCEPTABLE_HOLD_TIME == 6

MALFORMED_ATTRIBUTE_LIST == 1

-----------------------------------------------------------------------------
(* Event names, as the handlers compare them.                               *)

E1 == "Event 1: ManualStart"
E2 == "Event 2: ManualStop"
E8 == "Event 8: AutomaticStop"
E9 == "Event 9: ConnectRetryTimer_Expires"
E10 == "Event 10: HoldTimer_Expires"
E11 == "Event 11: KeepaliveTimer_Expires"
E12 == "Event 12: DelayOpenTimer_Expires"
E13 == "Event 13: IdleHoldTimer_Expires"
E16 == "Event 16: Tcp_CR_Acked"
E17 == "Event 17: TcpConnectionConfirmed"
E18 == "Event 18: TcpConnectionFails"
E19 == "Event 19: BGPOpen"
E20 == "Event 20: BGPOpen with DelayOpenTimer running"
E21 == "Event 21: BGPHeaderErr"
E22 == "Event 22: BGPOpenMsgErr"
E24 == "Event 24: NotifMsgVerErr"
E25 == "Event 25: NotifMsg"
E26 == "Event 26: KeepAliveMsg"
E27 == "Event 27: UpdateMsg"
E28 == "Event 28: UpdateMsgErr"

EventNames ==
    {E1, E2, E8, E9, E10, E11, E12, E13, E16, E17, E18, E19, E20, E21, E22,
     E24, E25, E26, E27, E28}

\* bgp_fsm.py line 131
StopEvents == {E2, E8}

\* bgp_fsm.py line 147
States == {"Idle", "Connect", "Active", "OpenSent", "OpenConfirm", "Established"}

\* The order of the `if self.state == ...` statements of BgpFsm.fsm.
DispatchOrder == <<"Idle", "Connect", "Active", "OpenSent", "OpenConfirm", "Established">>

-----------------------------------------------------------------------------
(* What the session writes: messages, and the closing of the connection.    *)

NoMessage == [type |-> None]
NotificationMsg(code, subcode) == [type |-> "NOTIFICATION", error_code |-> code, error_subcode |-> subcode]
KeepaliveMsg == [type |-> "KEEPALIVE"]
OpenMsg == [type |-> "OPEN"]
Closed == [type |-> "close"]

-----------------------------------------------------------------------------
(* bgp_message.py: the codec.  A bytes object is a sequence of 0..255; an   *)
(* IPv4 address in dotted-quad text is the tuple of its four numbers.       *)

Byte == 0..255

\* Python's data[a:b] on a sequence (0-based, end excluded, clamped).
Slice(d, a, b) == SubSeq(d, a + 1, IF b < Len(d) THEN b ELSE Len(d))

\* Python's data[a:]
SliceFrom(d, a) == SubSeq(d, a + 1, Len(d))

\* struct.pack("!B"), ("!H"), ("!L") of a value in range.
PackB(n) == <<n>>

PackH(n) == <<n \div 256, n % 256>>

PackL(n) ==
    <<n \div 16777216, (n \div 65536) % 256, (n \div 256) % 256, n % 256>>

\* struct.unpack("!H") and ("!L") of a slice of the right length.
UnpackH(b) == b[1] * 256 + b[2]

UnpackL(b) == b[1] * 16777216 + b[2] * 65536 + b[3] * 256 + b[4]

\* socket.inet_aton and socket.inet_ntoa.
inet_aton(quad) == <<quad[1], quad[2], quad[3], quad[4]>>

inet_ntoa(b) == <<b[1], b[2], b[3], b[4]>>

Marker == [i \in 1..16 |-> 255]

\* class Open, lines 193-210.
Open(local_id, local_asn, local_hold_time, opt, version) ==
    [ len |-> 19 + 10 + Len(opt),
      type |-> OPEN,
      version |-> version,
      asn |-> local_asn,
      hold_time |-> local_hold_time,
      bgp_id |-> UnpackL(inet_aton(local_id)),
      opt_len |-> Len(opt),
      opt |-> opt ]

OpenWrite(m) ==
    Marker \o PackH(m.len) \o PackB(m.type)
        \o PackB(m.version) \o PackH(m.asn) \o PackH(m.hold_time)
        \o PackL(m.bgp_id) \o PackB(m.opt_len)
        \o m.opt

\* class Notification, lines 213-222.
Notification(error_code, error_subcode, error_data) ==
    [ len |-> 19 + 2 + Len(error_data),
      type |-> NOTIFICATION,
      error_code |-> error_code,
      error_subcode |-> error_subcode,
      data |-> error_data ]

NotificationWrite(m) ==
    Marker \o PackH(m.len) \o PackB(m.type)
        \o PackB(m.error_code) \o PackB(m.error_subcode) \o m.data

\* class Keepalive, lines 230-237: write() sets len and type.
Keepalive == [len |-> 19, type |-> KEEPALIVE]

KeepaliveWrite(m) == Marker \o PackH(m.len) \o PackB(m.type)

Write(m) ==
    CASE m.type = OPEN -> OpenWrite(m)
      [] m.type = NOTIFICATION -> NotificationWrite(m)
      [] m.type = KEEPALIVE -> KeepaliveWrite(m)

\* class IPv4Prefix, lines 240-246.  (len & 3) and 1 is 0 when the two low
\* bits of len are 0 and 1 otherwise.
IPv4PrefixSize(len) == (len \div 8) + (IF len % 4 = 0 THEN 0 ELSE 1)

IPv4Prefix(raw_data) ==
    LET len == raw_data[1]
        size == IPv4PrefixSize(len)
        given == Slice(raw_data, 1, 1 + size)
    IN  [ len |-> len,
          size |-> size,
          bytes |-> given \o [i \in 1..(IF size < 4 THEN 4 - size ELSE 0) |-> 0] ]

\* The prefix loops of lines 157-161 and 168-172, from offset i (0-based).
RECURSIVE Prefixes(_, _)
Prefixes(raw, i) ==
    IF i < Len(raw)
    THEN LET prefix == IPv4Prefix(SliceFrom(raw, i))
         IN  <<prefix>> \o Prefixes(raw, i + prefix.size + 1)
    ELSE <<>>

\* Decoded0 without line 74: no expected length until a header is read.
Decoded0_nothing_expected(d) ==
    [ raised |-> None,
      data_length_error |-> FALSE,
      data_length_expected |-> 0,
      data_length_received |-> Len(d),
      message_error_code |-> 0,
      message_error_subcode |-> 0,
      message_error_data |-> <<>>,
      length |-> None,
      type |-> None,
      version |-> None, asn |-> None, hold_time |-> None, id |-> None,
      opt_len |-> None, opt_param |-> None,
      prefixes_del |-> None, prefixes_add |-> None,
      error_code |-> None, error_subcode |-> None, error_data |-> None ]

\* DecodeMessage.__init__, lines 71-190.  `raised` names the exception that
\* leaves the constructor, None when it returns; the attributes a branch does
\* not set are None.
Decoded0(d) ==
    [ raised |-> None,
      data_length_error |-> FALSE,
      data_length_expected |-> 19,
      data_length_received |-> Len(d),
      message_error_code |-> 0,
      message_error_subcode |-> 0,
      message_error_data |-> <<>>,
      length |-> None,
      type |-> None,
      version |-> None, asn |-> None, hold_time |-> None, id |-> None,
      opt_len |-> None, opt_param |-> None,
      prefixes_del |-> None, prefixes_add |-> None,
      error_code |-> None, error_subcode |-> None, error_data |-> None ]

\* No DecodeMessage has been constructed yet.
NotDecoded == [Decoded0(<<>>) EXCEPT !.raised = "not decoded"]

\* Lines 116-150.  data[29] is the byte after a 29-byte message.
DecodeOpen(r, d, local_id, peer_asn) ==
    IF r.length < 19 + 10
    THEN [r EXCEPT !.message_error_code = MESSAGE_HEADER_ERROR,
                   !.message_error_subcode = BAD_MESSAGE_LENGTH,
                   !.message_error_data = PackH(r.length)]
    ELSE IF Len(d) < 30
    THEN [r EXCEPT !.raised = "IndexError"]
    ELSE
        LET version == d[20]
            asn == UnpackH(Slice(d, 20, 22))
            hold_time == UnpackH(Slice(d, 23, 25))
            id == inet_ntoa(Slice(d, 25, 29))
            r1 == [r EXCEPT !.version = version,
                            !.asn = asn,
                            !.hold_time = hold_time,
                            !.id = id,
                            !.opt_len = d[30],
                            !.opt_param = Slice(d, 29, r.length)]
            r2 == IF version # 4
                  THEN [r1 EXCEPT !.message_error_code = OPEN_MESSAGE_ERROR,
                                  !.message_error_subcode = UNSUPPORTED_VERSION_NUMBER]
                  ELSE r1
            r3 == IF asn # peer_asn
                  THEN [r2 EXCEPT !.message_error_code = OPEN_MESSAGE_ERROR,
                                  !.message_error_subcode = BAD_PEER_AS]
                  ELSE r2
            r4 == IF id = local_id
                  THEN [r3 EXCEPT !.message_error_code = OPEN_MESSAGE_ERROR,
                                  !.message_error_subcode = BAD_BGP_IDENTIFIER]
                  ELSE r3
        IN  IF hold_time \in {1, 2}
            THEN [r4 EXCEPT !.message_error_code = OPEN_MESSAGE_ERROR,
                            !.message_error_subcode = UNACCEPTABLE_HOLD_TIME]
            ELSE r4

\* Lines 152-174.  struct.unpack("!H", ...) of a slice shorter than two bytes
\* raises struct.error.
DecodeUpdate(r, d) ==
    IF Len(Slice(d, 19, 21)) < 2
    THEN [r EXCEPT !.raised = "struct.error"]
    ELSE
        LET prefixes_del_len == UnpackH(Slice(d, 19, 21))
            prefixes_del_raw == Slice(d, 21, 21 + prefixes_del_len)
            r1 == [r EXCEPT !.prefixes_del = Prefixes(prefixes_del_raw, 0)]
            atribute_raw == Slice(d, 21 + prefixes_del_len, 21 + prefixes_del_len + 2)
        IN  IF Len(atribute_raw) < 2
            THEN [r1 EXCEPT !.raised = "struct.error"]
            ELSE
                LET atribute_len == UnpackH(atribute_raw)
                    prefixes_add_raw ==
                        SliceFrom(d, 21 + prefixes_del_len + 2 + atribute_len)
                IN  [r1 EXCEPT !.prefixes_add = Prefixes(prefixes_add_raw, 0)]

\* Lines 176-187.
DecodeNotification(r, d) ==
    IF r.length < 19 + 2
    THEN [r EXCEPT !.message_error_code = 1,
                   !.message_error_subcode = 2,
                   !.message_error_data = PackH(r.length)]
    ELSE [r EXCEPT !.error_code = d[20],
                   !.error_subcode = d[21],
                   !.error_data = Slice(d, 21, r.length)]

\* DecodeMessage with the Type check of lines 103-108 ahead of the Length
\* check of lines 96-101.
DecodeMessage_type_before_length(d, local_id, peer_asn) ==
    LET r0 == Decoded0(d)
    IN  IF Len(d) < 19
        THEN [r0 EXCEPT !.data_length_error = TRUE]
        ELSE IF \E i \in 1..16 : d[i] # 255
        THEN [r0 EXCEPT !.message_error_code = MESSAGE_HEADER_ERROR,
                        !.message_error_subcode = CONNECTION_NOT_SYNCHRONISED]
        ELSE
            LET length == UnpackH(Slice(d, 16, 18))
                type == d[19]
                r == [r0 EXCEPT !.length = length, !.type = type]
            IN  IF type \notin {OPEN, UPDATE, NOTIFICATION, KEEPALIVE}
                THEN [r EXCEPT !.message_error_code = MESSAGE_HEADER_ERROR,
                               !.message_error_subcode = BAD_MESSAGE_TYPE,
                               !.message_error_data = PackB(type)]
                ELSE IF length < 19 \/ length > 4096
                THEN [r EXCEPT !.message_error_code = MESSAGE_HEADER_ERROR,
                               !.message_error_subcode = BAD_MESSAGE_LENGTH,
                               !.message_error_data = PackH(length)]
                ELSE IF Len(d) < length
                THEN [r EXCEPT !.data_length_error = TRUE,
                               !.data_length_expected = length]
                ELSE CASE type = OPEN -> DecodeOpen(r, d, local_id, peer_asn)
                       [] type = UPDATE -> DecodeUpdate(r, d)
                       [] type = NOTIFICATION -> DecodeNotification(r, d)
                       [] type = KEEPALIVE -> r

\* Lines 71-114 and the dispatch on the type.
DecodeMessage(d, local_id, peer_asn) ==
    LET r0 == Decoded0(d)
    IN  IF Len(d) < 19
        THEN [r0 EXCEPT !.data_length_error = TRUE]
        ELSE IF \E i \in 1..16 : d[i] # 255
        THEN [r0 EXCEPT !.message_error_code = MESSAGE_HEADER_ERROR,
                        !.message_error_subcode = CONNECTION_NOT_SYNCHRONISED]
        ELSE
            LET length == UnpackH(Slice(d, 16, 18))
                type == d[19]
                r == [r0 EXCEPT !.length = length, !.type = type]
            IN  IF length < 19 \/ length > 4096
                THEN [r EXCEPT !.message_error_code = MESSAGE_HEADER_ERROR,
                               !.message_error_subcode = BAD_MESSAGE_LENGTH,
                               !.message_error_data = PackH(length)]
                ELSE IF type \notin {OPEN, UPDATE, NOTIFICATION, KEEPALIVE}
                THEN [r EXCEPT !.message_error_code = MESSAGE_HEADER_ERROR,
                               !.message_error_subcode = BAD_MESSAGE_TYPE,
                               !.message_error_data = PackB(type)]
                ELSE IF Len(d) < length
                THEN [r EXCEPT !.data_length_error = TRUE,
                               !.data_length_expected = length]
                ELSE CASE type = OPEN -> DecodeOpen(r, d, local_id, peer_asn)
                       [] type = UPDATE -> DecodeUpdate(r, d)
                       [] type = NOTIFICATION -> DecodeNotification(r, d)
                       [] type = KEEPALIVE -> r

-----------------------------------------------------------------------------
(* bgp_fsm.py: the BgpFsm object.                                           *)

\* BgpFsm.__init__, lines 55-101.  `wire` is not a field of the class: it is
\* the record of what the session wrote to, and did with, its connection
\* since the current event was dequeued.  `opening` is the transport
\* adapter's pending open (none, connect, listen).
NewBgpFsm(local_hold_time, mode) ==
    [ local_hold_time |-> local_hold_time,
      mode |-> mode,
      peer_port |-> 0,
      event_queue |-> <<>>,
      event_serial_number |-> 0,
      tcp_connection_established |-> FALSE,
      state |-> "Idle",
      connect_retry_counter |-> 0,
      connect_retry_timer |-> 0,
      connect_retry_time |-> 5,
      hold_timer |-> 0,
      hold_time |-> 0,
      keepalive_timer |-> 0,
      keepalive_time |-> 0,
      opening |-> "none",
      wire |-> <<>> ]

\* enqueue_event, lines 119-133.  Line 126 assigns 1 to a local name
\* `event_serial_number`; the field self.event_serial_number keeps the value
\* line 123 gave it, and line 128 tags the event with the field.
enqueue_event_noflush(s, name) ==
    LET serial == s.event_serial_number + 1
        ev == [name |-> name, serial_number |-> serial]
    IN  [s EXCEPT !.event_serial_number = serial,
                  !.event_queue = Append(@, ev)]

enqueue_event(s, name) ==
    LET serial == s.event_serial_number + 1
        ev == [name |-> name, serial_number |-> serial]
    IN  [s EXCEPT !.event_serial_number = serial,
                  !.event_queue = IF name \in StopEvents
                                  THEN <<ev>>
                                  ELSE Append(@, ev)]

\* dequeue_event, lines 137-142: the event returned, and the session after.
dequeued_event(s) == Head(s.event_queue)

dequeue_event(s) == [s EXCEPT !.event_queue = Tail(@)]

\* network_io.close_connection, from the specification (4.2): idempotent,
\* closes any live connection and drops a pending open.
close_connection(s) ==
    [s EXCEPT !.tcp_connection_established = FALSE,
              !.opening = "none",
              !.wire = Append(@, Closed)]

\* change_state, lines 144-159.
change_state_keeps_hold_timer(s, new_state) ==
    LET t == [s EXCEPT !.state = new_state]
    IN  IF new_state = "Idle"
        THEN close_connection([t EXCEPT !.connect_retry_timer = 0,
                                        !.keepalive_timer = 0,
                                        !.peer_port = 0])
        ELSE t

change_state(s, new_state) ==
    LET t == [s EXCEPT !.state = new_state]
    IN  IF new_state = "Idle"
        THEN close_connection([t EXCEPT !.connect_retry_timer = 0,
                                        !.keepalive_timer = 0,
                                        !.hold_timer = 0,
                                        !.peer_port = 0])
        ELSE t

\* network_io.send_notification_message(error_code), from the specification:
\* the NOTIFICATION it writes; the subcode defaults to 0 as in
\* bgp_message.Notification.
send_notification_message(error_code) == NotificationMsg(error_code, 0)

send_keepalive_message == KeepaliveMsg

send_open_message == OpenMsg

-----------------------------------------------------------------------------
(* bgp_fsm_established.py: fsm_established.                                 *)
(*                                                                          *)
(* A handler is given in three parts: whether the branch for the event      *)
(* raises, the message its first `await self.send_...` writes (NoMessage    *)
(* when the branch awaits nothing), and the statements after that await.    *)
(* Every branch of fsm_established tests event.name alone and the names are *)
(* distinct, so one branch at most runs for an event.                       *)

\* Lines 132-143: the branch calls self.send_notificaion_message, a name the
\* class does not have (lines 45-53 import send_notification_message), so
\* the attribute lookup raises AttributeError before anything is sent.
FsmErrorEvents == {E9, E12, E13, E20, E21, E22}

fsm_established_raises(name) == name \in FsmErrorEvents

\* Statements of a branch before its first await: none in fsm_established.
fsm_established_before(s, name) == s

\* Lines 37, 52, 67, 82; lines 117-118 (Event 28) hold a comment and `pass`.
fsm_established_message_cease_on_expiry(s, name) ==
    CASE name = E2 -> send_notification_message(CEASE)
      [] name = E8 -> send_notification_message(CEASE)
      [] name = E10 -> send_notification_message(CEASE)
      [] name = E11 -> send_keepalive_message
      [] OTHER -> NoMessage

fsm_established_message(s, name) ==
    CASE name = E2 -> send_notification_message(CEASE)
      [] name = E8 -> send_notification_message(CEASE)
      [] name = E10 -> send_notification_message(HOLD_TIMER_EXPIRED)
      [] name = E11 -> send_keepalive_message
      [] OTHER -> NoMessage

\* Lines 43-46, 58-61, 73-76, 85, 94-97, 103, 112, 127-130.
fsm_established_after_double_count(s, name) ==
    CASE name = E2 -> change_state([s EXCEPT !.connect_retry_counter = 0], "Idle")
      [] name \in {E8, E10, E28} ->
            change_state([s EXCEPT !.connect_retry_counter = @ + 1], "Idle")
      [] name \in {E18, E24, E25} ->
            change_state([s EXCEPT !.connect_retry_counter = @ + 2], "Idle")
      [] name = E11 -> [s EXCEPT !.keepalive_timer = s.keepalive_time]
      [] name \in {E26, E27} -> [s EXCEPT !.hold_timer = s.hold_time]
      [] OTHER -> s

\* fsm_established with a branch for Event 19 that restarts the hold timer.
fsm_established_after_open_restarts_hold(s, name) ==
    CASE name = E2 -> change_state([s EXCEPT !.connect_retry_counter = 0], "Idle")
      [] name \in {E8, E10, E18, E24, E25, E28} ->
            change_state([s EXCEPT !.connect_retry_counter = @ + 1], "Idle")
      [] name = E11 -> [s EXCEPT !.keepalive_timer = s.keepalive_time]
      [] name \in {E19, E26, E27} -> [s EXCEPT !.hold_timer = s.hold_time]
      [] OTHER -> s

\* fsm_established with an Event 27 branch that restarts the keepalive timer too.
fsm_established_after_update_restarts_keepalive(s, name) ==
    CASE name = E2 -> change_state([s EXCEPT !.connect_retry_counter = 0], "Idle")
      [] name \in {E8, E10, E18, E24, E25, E28} ->
            change_state([s EXCEPT !.connect_retry_counter = @ + 1], "Idle")
      [] name = E11 -> [s EXCEPT !.keepalive_timer = s.keepalive_time]
      [] name = E26 -> [s EXCEPT !.hold_timer = s.hold_time]
      [] name = E27 -> [s EXCEPT !.hold_timer = s.hold_time,
                                 !.keepalive_timer = s.keepalive_time]
      [] OTHER -> s

fsm_established_after(s, name) ==
    CASE name = E2 -> change_state([s EXCEPT !.connect_retry_counter = 0], "Idle")
      [] name \in {E8, E10, E18, E24, E25, E28} ->
            change_state([s EXCEPT !.connect_retry_counter = @ + 1], "Idle")
      [] name = E11 -> [s EXCEPT !.keepalive_timer = s.keepalive_time]
      [] name \in {E26, E27} -> [s EXCEPT !.hold_timer = s.hold_time]
      [] OTHER -> s

-----------------------------------------------------------------------------
(* The handlers of the other states (bgp_fsm_idle, bgp_fsm_connect,         *)
(* bgp_fsm_active, bgp_fsm_opensent, bgp_fsm_openconfirm), from the         *)
(* transition table of the specification (4.4).  Pairs the table does not   *)
(* list are no-ops; none of these handlers raises.                          *)

never_raises(name) == FALSE

open_connection(s) ==
    [s EXCEPT !.opening = IF s.mode = "Active" THEN "connect" ELSE "listen"]

fsm_idle_before(s, name) == s

fsm_idle_message(s, name) == NoMessage

fsm_idle_after(s, name) ==
    CASE name = E1 ->
            change_state(
                open_connection([s EXCEPT !.connect_retry_counter = 0,
                                          !.connect_retry_timer = s.connect_retry_time]),
                IF s.mode = "Active" THEN "Connect" ELSE "Active")
      [] name = E2 -> change_state([s EXCEPT !.connect_retry_counter = 0], "Idle")
      [] OTHER -> s

fsm_connect_before(s, name) ==
    IF name \in {E16, E17} THEN [s EXCEPT !.connect_retry_timer = 0] ELSE s

fsm_connect_message(s, name) ==
    IF name \in {E16, E17} THEN send_open_message ELSE NoMessage

fsm_connect_after(s, name) ==
    CASE name = E2 -> change_state([s EXCEPT !.connect_retry_counter = 0], "Idle")
      [] name = E9 ->
            open_connection(
                [close_connection(s) EXCEPT !.connect_retry_timer = s.connect_retry_time])
      [] name \in {E16, E17} ->
            change_state([s EXCEPT !.hold_timer = LargeHoldTime], "OpenSent")
      [] name = E18 ->
            change_state(
                [close_connection(s) EXCEPT !.connect_retry_timer = s.connect_retry_time],
                "Active")
      [] OTHER -> s

fsm_active_before(s, name) == s

fsm_active_message(s, name) ==
    IF name \in {E16, E17} THEN send_open_message ELSE NoMessage

fsm_active_after(s, name) ==
    CASE name = E2 -> change_state([s EXCEPT !.connect_retry_counter = 0], "Idle")
      [] name = E9 ->
            change_state(
                open_connection([s EXCEPT !.connect_retry_timer = s.connect_retry_time]),
                "Connect")
      [] name \in {E16, E17} ->
            change_state([s EXCEPT !.hold_timer = LargeHoldTime], "OpenSent")
      [] OTHER -> s

Min(a, b) == IF a < b THEN a ELSE b

\* OpenSent on BGPOpen: stop the connect retry timer, negotiate the hold
\* time, keepalive_time = hold_time / 3, arm both timers (0 disables them).
negotiate(s, peer_hold_time) ==
    LET h == Min(s.local_hold_time, peer_hold_time)
    IN  [s EXCEPT !.connect_retry_timer = 0,
                  !.hold_time = h,
                  !.keepalive_time = h \div 3,
                  !.hold_timer = h,
                  !.keepalive_timer = h \div 3]

fsm_opensent_before(s, name) ==
    IF name = E19 THEN negotiate(s, PeerHoldTime) ELSE s

\* The NOTIFICATION for events 21 and 22 carries the decode error's subcode,
\* which the events of the model do not carry.
fsm_opensent_message(s, name) ==
    CASE name = E2 -> send_notification_message(CEASE)
      [] name = E19 -> send_keepalive_message
      [] name = E21 -> send_notification_message(MESSAGE_HEADER_ERROR)
      [] name = E22 -> send_notification_message(OPEN_MESSAGE_ERROR)
      [] name = E10 -> send_notification_message(HOLD_TIMER_EXPIRED)
      [] OTHER -> NoMessage

fsm_opensent_after(s, name) ==
    CASE name = E2 -> change_state([s EXCEPT !.connect_retry_counter = 0], "Idle")
      [] name = E19 -> change_state(s, "OpenConfirm")
      [] name \in {E21, E22, E10} ->
            change_state([s EXCEPT !.connect_retry_counter = @ + 1], "Idle")
      [] name = E24 -> change_state(s, "Idle")
      [] name = E18 ->
            change_state(
                [close_connection(s) EXCEPT !.connect_retry_timer = s.connect_retry_time],
                "Active")
      [] OTHER -> s

fsm_openconfirm_before(s, name) == s

fsm_openconfirm_message(s, name) ==
    CASE name = E2 -> send_notification_message(CEASE)
      [] name = E11 -> send_keepalive_message
      [] name = E21 -> send_notification_message(MESSAGE_HEADER_ERROR)
      [] name = E22 -> send_notification_message(OPEN_MESSAGE_ERROR)
      [] name = E10 -> send_notification_message(HOLD_TIMER_EXPIRED)
      [] OTHER -> NoMessage

fsm_openconfirm_after(s, name) ==
    CASE name = E2 -> change_state([s EXCEPT !.connect_retry_counter = 0], "Idle")
      [] name = E26 -> change_state([s EXCEPT !.hold_timer = s.hold_time], "Established")
      [] name = E11 -> [s EXCEPT !.keepalive_timer = s.keepalive_time]
      [] name \in {E10, E21, E22, E24, E25, E18} ->
            change_state([s EXCEPT !.connect_retry_counter = @ + 1], "Idle")
      [] OTHER -> s

-----------------------------------------------------------------------------
(* bgp_fsm.py: BgpFsm.fsm, lines 161-186, the task that drives the FSM.     *)

NoEvent == [name |-> None, serial_number |-> 0]

\* The FSM task is suspended, so another task may take a step.  A task that
\* ended with an exception never runs again and holds nothing up.
Suspended == pc \in {"sleep", "send", "crashed"}

\* The `if` statements after stage k whose test fails change nothing: the
\* next one to run is the first whose state is the session's, if there is one.
NextStage(k, s) ==
    IF \E j \in (k + 1)..Len(DispatchOrder) : DispatchOrder[j] = s.state
    THEN CHOOSE j \in (k + 1)..Len(DispatchOrder) : DispatchOrder[j] = s.state
    ELSE 0

\* After the handler of a stage returned: the next `if` of the chain whose
\* test holds, or line 186.
Advance ==
    LET j == NextStage(stage, self')
    IN  IF j = 0
        THEN pc' = "done" /\ stage' = stage
        ELSE pc' = "dispatch" /\ stage' = j

\* Lines 165-166: the queue holds an event; dequeue it.
FsmDequeue ==
    /\ pc = "sleep"
    /\ self.event_queue # <<>>
    /\ event' = dequeued_event(self)
    /\ self' = dequeue_event(self)
    /\ entry' = self'
    /\ pc' = "dispatch"
    /\ stage' = NextStage(0, self)
    /\ UNCHANGED <<queueVars, codecVars>>

\* One `if self.state == ...: await self.fsm_...(event)` whose test holds:
\* the handler runs up to its first await that suspends, or to its end.
Run(k, raises(_), before(_, _), message(_, _), after(_, _)) ==
    /\ pc = "dispatch"
    /\ stage = k
    /\ self.state = DispatchOrder[k]
    /\ IF raises(event.name)
       THEN pc' = "crashed" /\ UNCHANGED <<self, stage>>
       ELSE LET s1 == before(self, event.name)
                m == message(s1, event.name)
            IN  IF m.type # None
                THEN /\ self' = [s1 EXCEPT !.wire = Append(@, m)]
                     /\ pc' = "send"
                     /\ UNCHANGED stage
                ELSE /\ self' = after(s1, event.name)
                     /\ Advance
    /\ UNCHANGED <<event, entry, queueVars, codecVars>>

\* The write is through: the handler runs on from its await to its end.
Resume(k, after(_, _)) ==
    /\ pc = "send"
    /\ stage = k
    /\ self' = after(self, event.name)
    /\ Advance
    /\ UNCHANGED <<event, entry, queueVars, codecVars>>

FsmIdle == Run(1, never_raises, fsm_idle_before, fsm_idle_message, fsm_idle_after)

FsmConnect ==
    Run(2, never_raises, fsm_connect_before, fsm_connect_message, fsm_connect_after)

FsmConnectResume == Resume(2, fsm_connect_after)

FsmActive ==
    Run(3, never_raises, fsm_active_before, fsm_active_message, fsm_active_after)

FsmActiveResume == Resume(3, fsm_active_after)

FsmOpenSent ==
    Run(4, never_raises, fsm_opensent_before, fsm_opensent_message, fsm_opensent_after)

FsmOpenSentResume == Resume(4, fsm_opensent_after)

FsmOpenConfirm ==
    Run(5, never_raises, fsm_openconfirm_before, fsm_openconfirm_message,
        fsm_openconfirm_after)

FsmOpenConfirmResume == Resume(5, fsm_openconfirm_after)

FsmEstablished ==
    Run(6, fsm_established_raises, fsm_established_before, fsm_established_message,
        fsm_established_after)

FsmEstablishedResume == Resume(6, fsm_established_after)

\* Line 186: the iteration is over and the task sleeps.  `event` is dead from
\* here on; it, the snapshot and the log of writes are cleared.
FsmSleep ==
    /\ pc = "done"
    /\ pc' = "sleep"
    /\ stage' = 1
    /\ event' = NoEvent
    /\ entry' = None
    /\ self' = [self EXCEPT !.wire = <<>>]
    /\ UNCHANGED <<queueVars, codecVars>>

FsmNext ==
    \/ FsmDequeue
    \/ FsmIdle
    \/ FsmConnect
    \/ FsmConnectResume
    \/ FsmActive
    \/ FsmActiveResume
    \/ FsmOpenSent
    \/ FsmOpenSentResume
    \/ FsmOpenConfirm
    \/ FsmOpenConfirmResume
    \/ FsmEstablished
    \/ FsmEstablishedResume
    \/ FsmSleep

-----------------------------------------------------------------------------
(* The other tasks of the session, from the specification (4.2, 4.3, 5, 6): *)
(* the owner's start and stop, the three timer drivers, the transport       *)
(* adapter and the input reader.  Each runs only while the FSM task is      *)
(* suspended, and each step of theirs is one run between two awaits.        *)

PeerPort == 179

ControlEvents == {E1, E2, E8}

\* What the input reader makes of a decoded message (4.2); the delay-open
\* timer never runs, so Event 20 is not among them.
InputEvents == {E19, E21, E22, E24, E25, E26, E27, E28}

\* The bounds of the model: a run enqueues MaxEvents events at most, and a
\* non-stop event only while fewer than MaxQueue are pending.
CanEnqueue(name) ==
    /\ self.event_serial_number < MaxEvents
    /\ name \in StopEvents \/ Len(self.event_queue) < MaxQueue

\* start(), stop() and the automatic stop of the owner.
Control ==
    /\ Suspended
    /\ \E name \in ControlEvents :
          /\ CanEnqueue(name)
          /\ self' = enqueue_event(self, name)
    /\ UNCHANGED <<pc, stage, event, entry, queueVars, codecVars>>

\* A timer driver's step after its one-second sleep: decrement a running
\* timer, and enqueue the Expires event on the decrement that gives 0.
decrease_timer(s, timer, name) ==
    LET t == [s EXCEPT ![timer] = @ - 1]
    IN  IF t[timer] = 0 THEN enqueue_event(t, name) ELSE t

DecreaseTimer(timer, name) ==
    /\ Suspended
    /\ self[timer] > 0
    /\ self[timer] = 1 => CanEnqueue(name)
    /\ self' = decrease_timer(self, timer, name)
    /\ UNCHANGED <<pc, stage, event, entry, queueVars, codecVars>>

DecreaseConnectRetryTimer == DecreaseTimer("connect_retry_timer", E9)

DecreaseHoldTimer == DecreaseTimer("hold_timer", E10)

DecreaseKeepaliveTimer == DecreaseTimer("keepalive_timer", E11)

\* The pending open succeeds: Event 16 for a connect, Event 17 for a listen.
TcpConnected ==
    /\ Suspended
    /\ self.opening # "none"
    /\ LET name == IF self.opening = "connect" THEN E16 ELSE E17
       IN  /\ CanEnqueue(name)
           /\ self' = enqueue_event(
                          [self EXCEPT !.tcp_connection_established = TRUE,
                                       !.opening = "none",
                                       !.peer_port = PeerPort],
                          name)
    /\ UNCHANGED <<pc, stage, event, entry, queueVars, codecVars>>

\* The connect fails, or the peer resets or closes the connection.
TcpFails ==
    /\ Suspended
    /\ self.tcp_connection_established \/ self.opening = "connect"
    /\ CanEnqueue(E18)
    /\ self' = enqueue_event(
                   [self EXCEPT !.tcp_connection_established = FALSE,
                                !.opening = "none"],
                   E18)
    /\ UNCHANGED <<pc, stage, event, entry, queueVars, codecVars>>

\* message_input_loop: a message of the peer is read, decoded and classified.
MessageInput ==
    /\ Suspended
    /\ self.tcp_connection_established
    /\ \E name \in InputEvents :
          /\ CanEnqueue(name)
          /\ self' = enqueue_event(self, name)
    /\ UNCHANGED <<pc, stage, event, entry, queueVars, codecVars>>

-----------------------------------------------------------------------------
(* The session: Spec.                                                       *)

\* The configured sessions of the model are active ones, as in the
\* specification's scenarios (8).
Modes == {"Active"}

Init ==
    /\ self \in {NewBgpFsm(LocalHoldTime, mode) : mode \in Modes}
    /\ pc = "sleep"
    /\ stage = 1
    /\ event = NoEvent
    /\ entry = None
    /\ enq_log = <<>>
    /\ deq_log = <<>>
    /\ msg = None
    /\ data = <<>>
    /\ decoded = NotDecoded

Next ==
    \/ FsmNext
    \/ Control
    \/ DecreaseConnectRetryTimer
    \/ DecreaseHoldTimer
    \/ DecreaseKeepaliveTimer
    \/ TcpConnected
    \/ TcpFails
    \/ MessageInput

Spec == Init /\ [][Next]_vars

\* The event loop runs the FSM task whenever it can take a step.
FairSpec == Spec /\ WF_vars(FsmNext)

-----------------------------------------------------------------------------
(* The event queue on its own: QueueSpec.  Any caller may enqueue any       *)
(* event at any time and dequeue while the queue holds one.  The session    *)
(* starts newly constructed or after SerialNearWrap enqueues, all of them   *)
(* dequeued, which leaves every field but the counter as constructed.       *)

\* bgp_fsm.py line 125.
MaxSerial == 65535

QueueEventNames == {E1, E2, E8, E10, E26}

Last(q) == q[Len(q)]

QueueInit ==
    /\ self \in {[NewBgpFsm(LocalHoldTime, "Active") EXCEPT !.event_serial_number = n] :
                    n \in {0, SerialNearWrap}}
    /\ pc = "sleep"
    /\ stage = 1
    /\ event = NoEvent
    /\ entry = None
    /\ enq_log = <<>>
    /\ deq_log = <<>>
    /\ msg = None
    /\ data = <<>>
    /\ decoded = NotDecoded

\* enqueue_event(event) with event.name = name; the log keeps the name that
\* was passed and the serial number the queued event carries.
QueueEnqueue ==
    /\ Len(enq_log) < MaxQueueOps
    /\ \E name \in QueueEventNames :
          /\ self' = enqueue_event(self, name)
          /\ enq_log' = Append(enq_log,
                               [name |-> name,
                                serial_number |-> Last(self'.event_queue).serial_number])
    /\ UNCHANGED <<pc, stage, event, entry, deq_log, codecVars>>

\* dequeue_event() on a queue that holds an event.
QueueDequeue ==
    /\ self.event_queue # <<>>
    /\ deq_log' = Append(deq_log, dequeued_event(self))
    /\ self' = dequeue_event(self)
    /\ UNCHANGED <<pc, stage, event, entry, enq_log, codecVars>>

QueueNext == QueueEnqueue \/ QueueDequeue

QueueSpec == QueueInit /\ [][QueueNext]_vars

-----------------------------------------------------------------------------
(* The codec on its own: CodecSpec.  A message value is written and the     *)
(* bytes are decoded by a receiver whose own identifier differs from the    *)
(* sender's and whose configured peer ASN is the sender's.                  *)

\* Identifiers below 128.0.0.0: their 32-bit value fits the checker's integers.
CodecIds == {<<1, 1, 1, 1>>, <<10, 0, 0, 1>>, <<127, 168, 255, 254>>}

CodecAsns == {1, 65001, 65535}

CodecHoldTimes == {0, 3, 90, 180, 65535}

CodecOpts == {<<>>, <<2, 0>>, <<2, 6, 1, 4, 0, 1, 0, 1>>}

CodecErrorData == {<<>>, <<7>>, <<0, 19>>}

ReceiverId == <<2, 2, 2, 2>>

CodecMessages ==
    {Open(id, asn, hold, opt, 4) :
        id \in CodecIds, asn \in CodecAsns, hold \in CodecHoldTimes, opt \in CodecOpts}
    \cup {Notification(code, subcode, d) :
            code \in 1..6, subcode \in 0..3, d \in CodecErrorData}
    \cup {Keepalive}

CodecInit ==
    /\ self = NewBgpFsm(LocalHoldTime, "Active")
    /\ pc = "sleep"
    /\ stage = 1
    /\ event = NoEvent
    /\ entry = None
    /\ enq_log = <<>>
    /\ deq_log = <<>>
    /\ msg \in CodecMessages
    /\ data = <<>>
    /\ decoded = NotDecoded

CodecEncode ==
    /\ data = <<>>
    /\ data' = Write(msg)
    /\ UNCHANGED <<sessionVars, queueVars, msg, decoded>>

CodecDecode ==
    /\ data # <<>>
    /\ decoded.raised = "not decoded"
    /\ decoded' = DecodeMessage(data, ReceiverId,
                                IF msg.type = OPEN THEN msg.asn ELSE 0)
    /\ UNCHANGED <<sessionVars, queueVars, msg, data>>

CodecNext == CodecEncode \/ CodecDecode

CodecSpec == CodecInit /\ [][CodecNext]_vars

-----------------------------------------------------------------------------
(* The decoder on its own: DecodeSpec.  A buffer of bytes read from the     *)
(* connection is given to DecodeMessage by a receiver whose identifier is   *)
(* ReceiverId and whose configured peer ASN is PeerAsn.  The buffers are    *)
(* headers of every kind with a few bytes after them, cut-off buffers, OPEN *)
(* messages and UPDATE messages.                                            *)

\* Bytes after the 19 of the header in a buffer built around a header.
MaxPad == 2

\* Most bytes of an OPEN message that a cut-off buffer lacks.
MaxCut == 3

PeerAsn == 65001

Frame(marker, length, type, body) == marker \o PackH(length) \o PackB(type) \o body

BadMarkers == {[Marker EXCEPT ![1] = 0], [Marker EXCEPT ![16] = 254]}

DecodeLengths == {0, 18, 19, 20, 21, 22, 29, 4096, 4097, 65535}

DecodeTypes == {0, OPEN, UPDATE, NOTIFICATION, KEEPALIVE, 5, 255}

Pads == {[i \in 1..n |-> 0] : n \in 0..MaxPad}

HeaderBuffers ==
    {Frame(m, l, t, p) :
        m \in {Marker} \cup BadMarkers, l \in DecodeLengths, t \in DecodeTypes,
        p \in Pads}

\* Fewer bytes than a header.
ShortBuffers ==
    {SubSeq(b, 1, n) :
        n \in 0..18, b \in {Frame(m, 19, KEEPALIVE, <<>>) : m \in {Marker} \cup BadMarkers}}

OpenVersions == {3, 4, 5}

OpenAsns == {PeerAsn, 65002}

OpenHoldTimes == {0, 1, 2, 3, 90, 256, 513}

OpenIds == {ReceiverId, <<1, 1, 1, 1>>, <<2, 1, 2, 2>>}

OpenOpts == {<<>>, <<2, 0>>}

OpenMessages ==
    {OpenWrite(Open(id, asn, hold, opt, v)) :
        id \in OpenIds, asn \in OpenAsns, hold \in OpenHoldTimes,
        opt \in OpenOpts, v \in OpenVersions}

\* An OPEN message, whole, or followed by the first byte of the next message,
\* or lacking its last bytes.
OpenBuffers ==
    OpenMessages
    \cup {b \o <<255>> : b \in OpenMessages}
    \cup {SubSeq(b, 1, Len(b) - n) :
            n \in 1..MaxCut, b \in {OpenWrite(Open(<<1, 1, 1, 1>>, PeerAsn, 90, <<>>, 4))}}

\* The class Update writes nothing (lines 225-227); this is the layout that
\* lines 154-166 read: withdrawn routes length, withdrawn routes, path
\* attribute length, path attributes, announced prefixes.
UpdateFrame(withdrawn, attributes, announced) ==
    Frame(Marker,
          19 + 2 + Len(withdrawn) + 2 + Len(attributes) + Len(announced),
          UPDATE,
          PackH(Len(withdrawn)) \o withdrawn
              \o PackH(Len(attributes)) \o attributes \o announced)

\* A prefix of length len on the wire: the length, then its value bytes.
PrefixBytes(len) == <<len>> \o [i \in 1..((len + 7) \div 8) |-> 160]

UpdateMessages ==
    {UpdateFrame(PrefixBytes(len) \o <<8, 10>>, attributes, announced) :
        len \in 0..32,
        attributes \in {<<>>, <<64, 1, 1, 0>>},
        announced \in {<<>>, <<16, 172, 16>>}}
    \cup {UpdateFrame(<<>>, <<>>, PrefixBytes(len)) : len \in 0..32}

\* UPDATE messages whose lengths or prefixes run over the end of the message.
OverrunUpdates ==
    {Frame(Marker, 19 + Len(body), UPDATE, body) :
        body \in {<<>>, <<0>>, <<0, 0>>, <<0, 0, 0>>,
                  <<0, 5, 0, 0>>, <<0, 0, 0, 9>>, <<0, 2, 24, 10, 0, 0>>,
                  <<0, 0, 0, 0, 24, 10>>}}

\* An UPDATE message, whole, or followed by the first byte or by the first
\* two bytes of what comes next on the stream.
UpdateBuffers ==
    UpdateMessages
    \cup {b \o <<255>> : b \in UpdateMessages}
    \cup {b \o <<8, 10>> : b \in UpdateMessages}

DecodeBuffers ==
    HeaderBuffers \cup ShortBuffers \cup OpenBuffers \cup UpdateBuffers
        \cup OverrunUpdates

DecodeInit ==
    /\ self = NewBgpFsm(LocalHoldTime, "Active")
    /\ pc = "sleep"
    /\ stage = 1
    /\ event = NoEvent
    /\ entry = None
    /\ enq_log = <<>>
    /\ deq_log = <<>>
    /\ msg = None
    /\ data \in DecodeBuffers
    /\ decoded = NotDecoded

DecodeBuffer ==
    /\ decoded.raised = "not decoded"
    /\ decoded' = DecodeMessage(data, ReceiverId, PeerAsn)
    /\ UNCHANGED <<sessionVars, queueVars, msg, data>>

DecodeNext == DecodeBuffer

DecodeSpec == DecodeInit /\ [][DecodeNext]_vars

-----------------------------------------------------------------------------
(* Claims.                                                                  *)

Range(q) == {q[i] : i \in 1..Len(q)}

Notifications(w) == SelectSeq(w, LAMBDA m : m.type = "NOTIFICATION")

\* a is b with some of its elements left out, the order kept.
RECURSIVE IsSubsequence(_, _)
IsSubsequence(a, b) ==
    IF a = <<>> THEN TRUE
    ELSE IF b = <<>> THEN FALSE
    ELSE IF Head(a) = Head(b) THEN IsSubsequence(Tail(a), Tail(b))
    ELSE IsSubsequence(a, Tail(b))

EnqueueStep == Len(enq_log') = Len(enq_log) + 1

DequeueStep == Len(deq_log') = Len(deq_log) + 1

\* The FSM task has finished the iteration for `event`, dequeued in Established.
DoneInEstablished == pc = "done" /\ entry.state = "Established"

\* C1: enqueuing Event 2 or Event 8 leaves the queue holding exactly that
\* event whatever was pending; enqueuing any other event appends it at the
\* tail and leaves the pending events as they were; a dequeue removes and
\* returns the head; so the events dequeued are, in order, a subsequence of
\* the events enqueued.
C1_QueueDiscipline ==
    /\ [][/\ EnqueueStep =>
                LET e == Last(enq_log')
                IN  IF e.name \in StopEvents
                    THEN self'.event_queue = <<e>>
                    ELSE self'.event_queue = Append(self.event_queue, e)
          /\ DequeueStep =>
                /\ self.event_queue # <<>>
                /\ self'.event_queue = Tail(self.event_queue)
                /\ Last(deq_log') = Head(self.event_queue)]_vars
    /\ [](IsSubsequence(deq_log, enq_log))

\* C1's case: a stop event flushed a pending event and was dequeued itself,
\* after an earlier event had been dequeued.
C1_Witness ==
    /\ Len(deq_log) >= 2
    /\ \E i \in 2..Len(enq_log) :
          /\ enq_log[i].name \in StopEvents
          /\ enq_log[i - 1].name \notin StopEvents
          /\ enq_log[i - 1] \notin Range(deq_log)
          /\ enq_log[i] \in Range(deq_log)

\* C2: when the FSM task has finished processing Event 2 dequeued in
\* Established, exactly one NOTIFICATION was sent and it is a Cease, the
\* state is Idle, connect_retry_counter is 0 and the event queue holds
\* nothing that a timer task or the input reader put there.
C2_ManualStopFromEstablished ==
    (DoneInEstablished /\ event.name = E2) =>
        /\ Notifications(self.wire) = <<NotificationMsg(CEASE, 0)>>
        /\ self.state = "Idle"
        /\ self.connect_retry_counter = 0
        /\ \A i \in 1..Len(self.event_queue) :
              self.event_queue[i].name \in ControlEvents

\* C3: when the processing of Event 9, 12, 13, 20, 21 or 22 dequeued in
\* Established has ended, a NOTIFICATION with the error code Finite State
\* Machine Error was sent, connect_retry_counter is one more than it was and
\* the state is Idle.
C3_FsmErrorInEstablished ==
    (/\ pc \in {"done", "crashed"}
     /\ entry.state = "Established"
     /\ event.name \in FsmErrorEvents) =>
        /\ \E i \in 1..Len(self.wire) :
              /\ self.wire[i].type = "NOTIFICATION"
              /\ self.wire[i].error_code = FINITE_STATE_MACHINE_ERROR
        /\ self.connect_retry_counter = entry.connect_retry_counter + 1
        /\ self.state = "Idle"

ManualStopQueued ==
    \E i \in 1..Len(self.event_queue) : self.event_queue[i].name = E2

\* C4: no event leaves the FSM task stopped for good, so that whenever
\* Event 2 is in the queue the task is there to dequeue it and to take the
\* session to Idle.
C4_ManualStopTakesEffect == ManualStopQueued => pc # "crashed"

\* C5: in every state, and so at every point where another task can run,
\* state = Idle implies that the three timers and peer_port are 0 and that
\* the connection is closed, with no open pending.
C5_IdleInvariant ==
    self.state = "Idle" =>
        /\ self.connect_retry_timer = 0
        /\ self.keepalive_timer = 0
        /\ self.hold_timer = 0
        /\ self.peer_port = 0
        /\ ~self.tcp_connection_established
        /\ self.opening = "none"

\* C5's case: change_state("Idle") has just run in a session that was
\* Established with its timers running, its port set and its connection up.
C5_Witness ==
    /\ DoneInEstablished
    /\ self.state = "Idle"
    /\ entry.hold_timer > 0
    /\ entry.keepalive_timer > 0
    /\ entry.peer_port # 0
    /\ entry.tcp_connection_established

\* C6: every enqueued event is tagged with a serial number in 1..65535, one
\* more than the one before it, and 1 after 65535; the session's counter
\* field holds the number last given.
C6_SerialNumbers ==
    [][EnqueueStep =>
          LET e == Last(enq_log')
          IN  /\ e.serial_number \in 1..MaxSerial
              /\ e.serial_number = IF self.event_serial_number = MaxSerial
                                   THEN 1
                                   ELSE self.event_serial_number + 1
              /\ self'.event_serial_number = e.serial_number]_vars

\* C7: when the FSM task has finished processing Event 10 dequeued in
\* Established, it wrote exactly one NOTIFICATION, with error code 4 and
\* subcode 0, and then closed the connection; connect_retry_counter is one
\* more than it was and the state is Idle.
C7_HoldTimerExpiry ==
    (DoneInEstablished /\ event.name = E10) =>
        /\ self.wire = <<NotificationMsg(HOLD_TIMER_EXPIRED, 0), Closed>>
        /\ self.connect_retry_counter = entry.connect_retry_counter + 1
        /\ self.state = "Idle"

\* C7's case: Event 10 was dequeued in Established and its processing is over.
C7_Witness == DoneInEstablished /\ event.name = E10 /\ self.state = "Idle"

\* C8: when the FSM task has finished processing Event 28 dequeued in
\* Established, a NOTIFICATION with the error code Update Message Error was
\* sent, connect_retry_counter is one more than it was and the state is Idle.
C8_UpdateErrorInEstablished ==
    (DoneInEstablished /\ event.name = E28) =>
        /\ \E i \in 1..Len(self.wire) :
              /\ self.wire[i].type = "NOTIFICATION"
              /\ self.wire[i].error_code = UPDATE_MESSAGE_ERROR
        /\ self.connect_retry_counter = entry.connect_retry_counter + 1
        /\ self.state = "Idle"

\* C9: connect_retry_counter is never negative; when the processing of an
\* event dequeued in Established has ended, the session is in Idle or in
\* Established; in Idle the counter is 0 after Event 2 and one more than it
\* was after any other event; in Established it is what it was; and it
\* differs from what it was by 1 at most.
C9_ConnectRetryCounter ==
    /\ self.connect_retry_counter >= 0
    /\ (pc \in {"done", "crashed"} /\ entry.state = "Established") =>
          LET before == entry.connect_retry_counter
              after == self.connect_retry_counter
          IN  /\ self.state \in {"Idle", "Established"}
              /\ (self.state = "Idle" /\ event.name = E2) => after = 0
              /\ (self.state = "Idle" /\ event.name # E2) => after = before + 1
              /\ self.state = "Established" => after = before
              /\ after - before \in {-1, 0, 1}

\* C9's case: an event other than Event 2 took the session from Established
\* to Idle without a message being sent.
C9_Witness ==
    /\ DoneInEstablished
    /\ event.name \in {E18, E24, E25}
    /\ self.state = "Idle"
    /\ self.connect_retry_counter = 1

\* C10: decoding the bytes write() produced raises nothing, reports no error
\* and no missing data, and yields the type and the field values of the
\* message written.
C10_CodecRoundTrip ==
    decoded.raised # "not decoded" =>
        /\ decoded.raised = None
        /\ ~decoded.data_length_error
        /\ decoded.message_error_code = 0
        /\ decoded.message_error_subcode = 0
        /\ decoded.type = msg.type
        /\ decoded.length = msg.len
        /\ msg.type = OPEN =>
              /\ decoded.version = msg.version
              /\ decoded.asn = msg.asn
              /\ decoded.hold_time = msg.hold_time
              /\ UnpackL(inet_aton(decoded.id)) = msg.bgp_id
              /\ decoded.opt_len = msg.opt_len
              /\ decoded.opt_param = msg.opt
        /\ msg.type = NOTIFICATION =>
              /\ decoded.error_code = msg.error_code
              /\ decoded.error_subcode = msg.error_subcode
              /\ decoded.error_data = msg.data

-----------------------------------------------------------------------------
(* Claims about the decoder, checked under DecodeSpec.  What a buffer holds *)
(* is read off its bytes here, at the offsets of the protocol.              *)

HasDecoded == decoded.raised # "not decoded"

ValidMarker(d) == \A i \in 1..16 : d[i] = 255

HeaderLength(d) == d[17] * 256 + d[18]

HeaderType(d) == d[19]

\* The buffer holds a whole message of this type.
Complete(d, type) ==
    /\ Len(d) >= 19
    /\ ValidMarker(d)
    /\ HeaderLength(d) \in 19..4096
    /\ HeaderType(d) = type
    /\ Len(d) >= HeaderLength(d)

\* The subcode of the first check that the OPEN in d fails, 0 if it passes all.
OpenSubcode(d) ==
    LET version == d[20]
        asn == d[21] * 256 + d[22]
        hold_time == d[23] * 256 + d[24]
        bgp_id == <<d[25], d[26], d[27], d[28]>>
    IN  IF version # 4 THEN UNSUPPORTED_VERSION_NUMBER
        ELSE IF asn # PeerAsn THEN BAD_PEER_AS
        ELSE IF bgp_id = ReceiverId THEN BAD_BGP_IDENTIFIER
        ELSE IF hold_time \in {1, 2} THEN UNACCEPTABLE_HOLD_TIME
        ELSE 0

\* C11: for a whole OPEN message, decode raises nothing and reports the
\* subcode of the first failing check among version, asn, bgp_id, hold_time,
\* read at the protocol's offsets, with error code 2; it reports no error
\* when no check fails.
C11_OpenValidation ==
    (HasDecoded /\ Complete(data, OPEN) /\ HeaderLength(data) >= 29) =>
        /\ decoded.raised = None
        /\ decoded.message_error_subcode = OpenSubcode(data)
        /\ decoded.message_error_code =
              IF OpenSubcode(data) = 0 THEN 0 ELSE OPEN_MESSAGE_ERROR

\* decode returned, reporting this protocol error and no partial frame.
Reports(code, subcode) ==
    /\ decoded.raised = None
    /\ ~decoded.data_length_error
    /\ decoded.message_error_code = code
    /\ decoded.message_error_subcode = subcode

\* C12: for a buffer of 19 bytes or more, a marker byte other than 0xFF gives
\* (1,1); with a good marker a Length outside 19..4096 gives (1,2) and the
\* Length in two big-endian bytes; with both good a Type outside 1..4 gives
\* (1,3) and the Type byte; whether or not the buffer holds Length bytes.
C12_HeaderPrecedence ==
    (HasDecoded /\ Len(data) >= 19) =>
        LET length == HeaderLength(data)
            type == HeaderType(data)
        IN  /\ ~ValidMarker(data) =>
                  Reports(MESSAGE_HEADER_ERROR, CONNECTION_NOT_SYNCHRONISED)
            /\ (ValidMarker(data) /\ length \notin 19..4096) =>
                  /\ Reports(MESSAGE_HEADER_ERROR, BAD_MESSAGE_LENGTH)
                  /\ decoded.message_error_data = <<length \div 256, length % 256>>
            /\ (ValidMarker(data) /\ length \in 19..4096 /\ type \notin 1..4) =>
                  /\ Reports(MESSAGE_HEADER_ERROR, BAD_MESSAGE_TYPE)
                  /\ decoded.message_error_data = <<type>>

\* C12's case: a header with a bad Length and a bad Type, in a buffer that
\* holds fewer than Length bytes, was decoded and the Length was reported.
C12_Witness ==
    /\ HasDecoded
    /\ Len(data) >= 19
    /\ ValidMarker(data)
    /\ HeaderLength(data) > 4096
    /\ HeaderType(data) \notin 1..4
    /\ Len(data) < HeaderLength(data)
    /\ decoded.message_error_subcode = BAD_MESSAGE_LENGTH

CeilDiv8(len) == (len + 7) \div 8

\* Every prefix of the list has its value bytes in the list.
RECURSIVE PrefixListFits(_)
PrefixListFits(raw) ==
    \/ raw = <<>>
    \/ /\ 1 + CeilDiv8(raw[1]) <= Len(raw)
       /\ PrefixListFits(SubSeq(raw, 2 + CeilDiv8(raw[1]), Len(raw)))

\* The two length fields of the UPDATE in d, or a prefix, run over its end.
UpdateMalformed(d) ==
    LET length == HeaderLength(d)
    IN  IF length < 23 THEN TRUE
        ELSE LET wlen == d[20] * 256 + d[21]
             IN  IF 23 + wlen > length THEN TRUE
                 ELSE LET alen == d[22 + wlen] * 256 + d[23 + wlen]
                      IN  \/ 23 + wlen + alen > length
                          \/ ~PrefixListFits(SubSeq(d, 22, 21 + wlen))
                          \/ ~PrefixListFits(SubSeq(d, 24 + wlen + alen, length))

\* C13: for a whole UPDATE message in which a length field or a prefix runs
\* over the end of the message, decode raises nothing and reports
\* UPDATE_MESSAGE_ERROR with subcode MALFORMED_ATTRIBUTE_LIST.
C13_MalformedUpdate ==
    (HasDecoded /\ Complete(data, UPDATE) /\ UpdateMalformed(data)) =>
        Reports(UPDATE_MESSAGE_ERROR, MALFORMED_ATTRIBUTE_LIST)

\* The lengths of the prefixes of a list in which each takes 1 + ceil(L/8) bytes.
RECURSIVE PrefixLengths(_)
PrefixLengths(raw) ==
    IF raw = <<>> THEN <<>>
    ELSE <<raw[1]>> \o PrefixLengths(SubSeq(raw, 2 + CeilDiv8(raw[1]), Len(raw)))

DecodedLengths(prefixes) == [i \in 1..Len(prefixes) |-> prefixes[i].len]

\* C14: in a whole, well-formed UPDATE message every decoded prefix of length
\* L in 0..32 has size ceil(L/8), and each prefix is read right after the
\* 1 + ceil(L/8) bytes of the one before it: the decoded prefixes have the
\* lengths of the prefixes in the message.
C14_PrefixSize ==
    (HasDecoded /\ Complete(data, UPDATE) /\ ~UpdateMalformed(data)) =>
        LET wlen == data[20] * 256 + data[21]
            alen == data[22 + wlen] * 256 + data[23 + wlen]
        IN  /\ decoded.raised = None
            /\ \A q \in {decoded.prefixes_del, decoded.prefixes_add} :
                  \A i \in 1..Len(q) :
                      q[i].len \in 0..32 => q[i].size = CeilDiv8(q[i].len)
            /\ DecodedLengths(decoded.prefixes_del) =
                  PrefixLengths(SubSeq(data, 22, 21 + wlen))
            /\ DecodedLengths(decoded.prefixes_add) =
                  PrefixLengths(SubSeq(data, 24 + wlen + alen, HeaderLength(data)))

\* C15: a buffer with a good marker and Type 4 that decode returns as a
\* message with no error and no missing data has Length 19.
C15_KeepaliveLength ==
    (/\ HasDecoded
     /\ Len(data) >= 19
     /\ ValidMarker(data)
     /\ HeaderType(data) = KEEPALIVE
     /\ decoded.raised = None
     /\ ~decoded.data_length_error
     /\ decoded.message_error_code = 0) =>
        HeaderLength(data) = 19

\* decode returned, reporting a partial frame of n bytes and no error.
Partial(n) ==
    /\ decoded.raised = None
    /\ decoded.data_length_error
    /\ decoded.data_length_expected = n
    /\ decoded.message_error_code = 0
    /\ decoded.message_error_subcode = 0

\* C16: a buffer of fewer than 19 bytes is reported as a partial frame of 19
\* bytes; a buffer with a good marker, a Length in 19..4096 and a Type in
\* 1..4 but fewer than Length bytes as a partial frame of Length bytes; the
\* error code and subcode are 0 in both cases, and no result reports a
\* partial frame together with an error.
C16_PartialFrames ==
    HasDecoded =>
        /\ Len(data) < 19 => Partial(19)
        /\ (/\ Len(data) >= 19
            /\ ValidMarker(data)
            /\ HeaderLength(data) \in 19..4096
            /\ HeaderType(data) \in 1..4
            /\ Len(data) < HeaderLength(data)) => Partial(HeaderLength(data))
        /\ ~(/\ decoded.data_length_error
             /\ decoded.message_error_code # 0 \/ decoded.message_error_subcode # 0)

\* C16's case: a good header whose message is not all there was decoded and
\* its Length, more than 19, is the expected length.
C16_Witness ==
    /\ HasDecoded
    /\ Len(data) >= 19
    /\ ValidMarker(data)
    /\ HeaderLength(data) > 19
    /\ Len(data) < HeaderLength(data)
    /\ decoded.data_length_error
    /\ decoded.data_length_expected = HeaderLength(data)

-----------------------------------------------------------------------------
(* Claims about the tasks of a session, checked under Spec.                 *)

\* The FSM task is between the dequeue of an event in Established and the
\* end of the handler's run for it.
InEstablishedTransition ==
    pc \in {"dispatch", "send"} /\ entry.state = "Established"

\* A step of a task other than the FSM task: the session changes and the FSM
\* task is where it was.
OtherTaskRuns == pc' = pc /\ stage' = stage /\ self' # self

\* C17: from the dequeue of an event in Established to the end of its
\* transition no other task of the session takes a step: no timer is
\* decremented, no event is enqueued, and nothing runs while a NOTIFICATION
\* is sent and the state still is Established.
C17_TransitionAtomicity == [][InEstablishedTransition => ~OtherTaskRuns]_vars

\* fsm_established is about to run for `event`.
ProcessingInEstablished ==
    pc = "dispatch" /\ stage = 6 /\ self.state = "Established"

\* C18: whenever fsm_established is about to run for Event 10, hold_timer
\* is 0.
C18_NoStaleHoldExpiry ==
    (ProcessingInEstablished /\ event.name = E10) => self.hold_timer = 0

\* The events fsm_established has a branch for.
EstablishedEvents ==
    {E2, E8, E9, E10, E11, E12, E13, E18, E20, E21, E22, E24, E25, E26, E27, E28}

\* C19: the run of fsm_established for an event it has no branch for ends
\* the iteration with the session as it was: state, connect_retry_counter,
\* timers, peer_port and connection unchanged, nothing written.
C19_UnmatchedEvents ==
    [][(ProcessingInEstablished /\ event.name \notin EstablishedEvents) =>
          (pc' = "done" /\ self' = self)]_vars

\* C19's case: Event 1 or Event 19 was dequeued in Established, with the
\* hold timer run down in part, and its processing is over.
C19_Witness ==
    /\ DoneInEstablished
    /\ event.name \in {E1, E19}
    /\ self.hold_timer < self.hold_time
    /\ self = entry

\* C20: the run of fsm_established for Event 26 or Event 27 ends the
\* iteration with hold_timer = hold_time and everything else as it was,
\* nothing written.
C20_HoldTimerRestart ==
    [][(ProcessingInEstablished /\ event.name \in {E26, E27}) =>
          /\ pc' = "done"
          /\ self' = [self EXCEPT !.hold_timer = self.hold_time]]_vars

\* C20's case: Event 26 or Event 27 was dequeued in Established with the
\* hold and keepalive timers run down in part, and the hold timer is
\* restarted.
C20_Witness ==
    /\ DoneInEstablished
    /\ event.name \in {E26, E27}
    /\ entry.hold_timer < entry.hold_time
    /\ entry.keepalive_timer < entry.keepalive_time
    /\ self.hold_timer = self.hold_time
    /\ self.state = "Established"

\* C21: whenever a state handler is about to run for the dequeued event, it
\* is the handler of the state the session was in when the event was
\* dequeued: no handler of a state that an earlier handler of the same
\* iteration changed to runs for the event.
C21_SingleDispatch == pc = "dispatch" => DispatchOrder[stage] = entry.state

\* The buffer holds a whole message of one of the four types.
HoldsMessage(d) == \E type \in {OPEN, UPDATE, NOTIFICATION, KEEPALIVE} : Complete(d, type)

\* The message at the head of the buffer, without what follows it.
FrameOf(d) == SubSeq(d, 1, HeaderLength(d))

\* C22: for a buffer that holds a whole message, decode raises exactly when
\* the decode of the message's Length bytes alone raises, and when it
\* returns it returns the same fields, error code and subcode; and the
\* decode of the Length bytes alone never indexes past their end.
C22_FrameBoundary ==
    (HasDecoded /\ HoldsMessage(data)) =>
        LET alone == DecodeMessage(FrameOf(data), ReceiverId, PeerAsn)
        IN  /\ alone.raised # "IndexError"
            /\ decoded.raised = alone.raised
            /\ decoded.raised = None =>
                  decoded = [alone EXCEPT !.data_length_received = Len(data)]

=============================================================================
